---- MODULE Spec2Model ----
(***************************************************************************)
(* Model of the WebSocket broadcast hub of src/src/main.rs: the accept    *)
(* loop of run() and the per-connection task handle_connection().         *)
(*                                                                         *)
(* A Rust panic inside a spawned task unwinds that task only: its future  *)
(* is dropped (which drops the receiver half of its outbound channel and  *)
(* closes its socket) and the statements after the panic site never run.  *)
(* A panic raised while a std::sync::Mutex guard is alive poisons the     *)
(* mutex, after which every lock().unwrap() panics.                        *)
(***************************************************************************)
EXTENDS Integers, Sequences, FiniteSets, TLC

\* ---- bounds of the model ----
NumAddrs == 3
MaxAccepts == 3
MaxReads == 2

Addrs == 1..NumAddrs

\* ---- messages (tungstenite Message) ----
\* Payload bytes: one ASCII byte and one byte that can occur in no UTF-8 text.
Bytes == {65, 255}
Payloads == {<<b>> : b \in Bytes}

IsUtf8(p) == \A k \in 1..Len(p) : p[k] < 128

\* "from" is the connection a message was read from and "seq" the position
\* of the message among all messages read (provenance only; the relay code
\* never inspects them).  For one sender, seq order is the order of sending.
Messages ==
    [kind : {"Text"}, payload : {p \in Payloads : IsUtf8(p)}, from : Addrs,
     seq : 1..MaxReads]
      \cup [kind : {"Binary"}, payload : Payloads, from : Addrs,
            seq : 1..MaxReads]
      \cup [kind : {"Close"}, payload : {<<>>}, from : Addrs,
            seq : 1..MaxReads]

is_close(m) == m.kind = "Close"

\* Message::to_text(): Ok for Text and Close, from_utf8(payload) for Binary.
to_text_ok(m) == IF m.kind = "Binary" THEN IsUtf8(m.payload) ELSE TRUE

\* A filter that lets every message through.
try_filter_all(m) == TRUE

\* the predicate of try_filter (main.rs:83-87)
try_filter(m) == ~is_close(m)

VARIABLES
    acceptor,      \* run(): "listening" | "returned"
    nAccepts,      \* connections accepted so far
    nReads,        \* inbound messages read so far (all connections)
    gen,           \* gen[a]: number of connections accepted from address a
    pc,            \* pc[a]: position of the handler of the connection from a
    panicAt,       \* panicAt[a]: site of the panic that ended the handler
    selectResult,  \* selectResult[a]: which relay direction completed first
    peer_map,      \* the HashMap: registered address -> sender handle (gen)
    poisoned,      \* the Mutex around peer_map is poisoned
    guard,         \* holder of the MutexGuard `peers` (0: nobody)
    cur,           \* <<msg>> while the closure of try_for_each broadcasts msg
    todo,          \* recipients the `for recp` loop has not reached yet
    rx,            \* rx[a]: receiver half of the connection's channel
    queue,         \* queue[a]: messages in the connection's channel
    delivered      \* delivered[a]: messages written to the connection's sink

vars == <<acceptor, nAccepts, nReads, gen, pc, panicAt, selectResult,
          peer_map, poisoned, guard, cur, todo, rx, queue, delivered>>

PcValues == {"none", "handshake", "relaying", "closing", "cleanup",
             "done", "panicked"}
PanicSites == {"none", "handshake", "insert", "to_text", "lock", "send",
               "remove"}
SelectResults == {"none", "in_ok", "in_err", "out_err"}

Init ==
    /\ acceptor = "listening"
    /\ nAccepts = 0
    /\ nReads = 0
    /\ gen = [a \in Addrs |-> 0]
    /\ pc = [a \in Addrs |-> "none"]
    /\ panicAt = [a \in Addrs |-> "none"]
    /\ selectResult = [a \in Addrs |-> "none"]
    /\ peer_map = <<>>
    /\ poisoned = FALSE
    /\ guard = 0
    /\ cur = <<>>
    /\ todo = {}
    /\ rx = [a \in Addrs |-> "none"]
    /\ queue = [a \in Addrs |-> <<>>]
    /\ delivered = [a \in Addrs |-> <<>>]

\* ---- helpers ----
Registered == DOMAIN peer_map

\* HashMap::remove that empties the map when the key is absent.
MapRemove_clears(map, a) ==
    IF a \in DOMAIN map THEN [k \in (DOMAIN map) \ {a} |-> map[k]] ELSE <<>>

\* HashMap::insert / HashMap::remove
MapInsert(map, a, tx) ==
    [k \in (DOMAIN map) \cup {a} |-> IF k = a THEN tx ELSE map[k]]
MapRemove(map, a) == [k \in (DOMAIN map) \ {a} |-> map[k]]

\* unbounded_send on the handle stored under address r succeeds iff the
\* receiver of the channel that handle belongs to has not been dropped.
ChanOpen(r) == r \in Registered /\ peer_map[r] = gen[r] /\ rx[r] = "open"

\* The handler of a is live (its future has not completed or been dropped).
Live(a) == pc[a] \in {"handshake", "relaying", "closing", "cleanup"}

\* A lock that never makes anyone wait.
GuardFree_always == TRUE

\* peer_map.lock() returns only while nobody holds the guard.
GuardFree == guard = 0

\* The task of a is not inside its broadcast closure (a task runs one of its
\* two relay directions at a time).
NotBroadcasting(a) == IF cur = <<>> THEN TRUE ELSE cur[1].from # a

\* Recipients without the `peer_addr != &&addr` filter.
broadcast_recipients_all(a) == {r \in Registered : TRUE}

\* main.rs:97-100: everyone in the map except ourselves
broadcast_recipients(a) == {r \in Registered : r # a}

\* A guard dropped as soon as the recipients have been collected.
GuardWhileSending_released(a, R) == 0

\* main.rs:94-106: the guard `peers` lives until the closure returns, i.e.
\* as long as there are recipients left to send to.
GuardWhileSending(a, R) == IF R = {} THEN 0 ELSE a

\* The inbound stream still yields after a close frame.
CanRead_after_close(a) == pc[a] \in {"relaying", "closing"}

\* The inbound stream of a yields messages until a close frame was read.
CanRead(a) == pc[a] = "relaying"

\* The future of a is dropped: the sink `outgoing` and the socket go with it.
DropOwnSink(d, a) == [d EXCEPT ![a] = <<>>]

\* A panic in the task of a: the future is dropped, nothing else runs.
Panic(a, site) ==
    /\ pc' = [pc EXCEPT ![a] = "panicked"]
    /\ panicAt' = [panicAt EXCEPT ![a] = site]
    /\ rx' = [rx EXCEPT ![a] = IF site = "handshake" THEN "none" ELSE "dropped"]
    /\ delivered' = DropOwnSink(delivered, a)

\* ---- run(): the accept loop (main.rs:131-133) ----
Accept(a) ==
    /\ acceptor = "listening"
    /\ nAccepts < MaxAccepts
    /\ ~Live(a)
    /\ nAccepts' = nAccepts + 1
    /\ gen' = [gen EXCEPT ![a] = @ + 1]
    /\ pc' = [pc EXCEPT ![a] = "handshake"]
    /\ panicAt' = [panicAt EXCEPT ![a] = "none"]
    /\ selectResult' = [selectResult EXCEPT ![a] = "none"]
    /\ rx' = [rx EXCEPT ![a] = "none"]
    /\ queue' = [queue EXCEPT ![a] = <<>>]
    /\ delivered' = [delivered EXCEPT ![a] = <<>>]
    /\ UNCHANGED <<acceptor, nReads, peer_map, poisoned, guard, cur, todo>>

\* listener.accept() returns Err: `while let Ok(..)` ends, run returns Ok(()).
AcceptFail ==
    /\ acceptor = "listening"
    /\ nAccepts < MaxAccepts
    /\ acceptor' = "returned"
    /\ UNCHANGED <<nAccepts, nReads, gen, pc, panicAt, selectResult,
                   peer_map, poisoned, guard, cur, todo, rx, queue,
                   delivered>>

\* ---- handle_connection ----
\* A handler that inserts into the map before the handshake has succeeded.
HandshakeFail_registers_first(a) ==
    /\ pc[a] = "handshake"
    /\ ~poisoned
    /\ GuardFree
    /\ peer_map' = MapInsert(peer_map, a, gen[a])
    /\ Panic(a, "handshake")
    /\ UNCHANGED <<acceptor, nAccepts, nReads, gen, selectResult,
                   poisoned, guard, cur, todo, queue>>

\* accept_async fails: .expect panics (main.rs:71-73)
HandshakeFail(a) ==
    /\ pc[a] = "handshake"
    /\ Panic(a, "handshake")
    /\ UNCHANGED <<acceptor, nAccepts, nReads, gen, selectResult,
                   peer_map, poisoned, guard, cur, todo, queue>>

\* accept_async succeeds; unbounded(); peer_map.lock().unwrap().insert
\* (main.rs:71-80)
Register(a) ==
    /\ pc[a] = "handshake"
    /\ GuardFree
    /\ IF poisoned
         THEN /\ Panic(a, "insert")
              /\ UNCHANGED peer_map
         ELSE /\ peer_map' = MapInsert(peer_map, a, gen[a])
              /\ rx' = [rx EXCEPT ![a] = "open"]
              /\ pc' = [pc EXCEPT ![a] = "relaying"]
              /\ UNCHANGED <<panicAt, delivered>>
    /\ UNCHANGED <<acceptor, nAccepts, nReads, gen, selectResult,
                   poisoned, guard, cur, todo, queue>>

\* Appending m to the queues of the peers in S.
Enqueue(S, m) ==
    [j \in Addrs |-> IF j \in S THEN Append(queue[j], m) ELSE queue[j]]

\* The receiver of a is dropped with its task: queued messages are freed.
DropOwnQueue(q, a) == [q EXCEPT ![a] = <<>>]

\* One inbound message m read by the inbound direction of a, up to the
\* start of the `for recp` loop (main.rs:82-101).
Recv(a, m) ==
    /\ CanRead(a)
    /\ NotBroadcasting(a)
    /\ nReads < MaxReads
    /\ m.from = a
    /\ m.seq = nReads + 1
    /\ nReads' = nReads + 1
    /\ IF ~try_filter(m)
         THEN \* filtered out; the protocol layer is now closed by the peer
              /\ pc' = [pc EXCEPT ![a] = "closing"]
              /\ UNCHANGED <<panicAt, rx, queue, delivered, guard, cur, todo>>
         ELSE IF ~to_text_ok(m)
         THEN \* main.rs:92 msg.to_text().unwrap()
              /\ Panic(a, "to_text")
              /\ queue' = DropOwnQueue(queue, a)
              /\ UNCHANGED <<guard, cur, todo>>
         ELSE \* main.rs:94 peer_map.lock().unwrap()
              /\ GuardFree
              /\ IF poisoned
                   THEN /\ Panic(a, "lock")
                        /\ queue' = DropOwnQueue(queue, a)
                        /\ UNCHANGED <<guard, cur, todo>>
                   ELSE LET R == broadcast_recipients(a)
                        IN /\ guard' = GuardWhileSending(a, R)
                           /\ cur' = IF R = {} THEN <<>> ELSE <<m>>
                           /\ todo' = R
                           /\ UNCHANGED <<pc, panicAt, rx, queue, delivered>>
    /\ UNCHANGED <<acceptor, nAccepts, gen, selectResult, peer_map,
                   poisoned>>

\* One iteration of `for recp in broadcast_recipients` (main.rs:102-104);
\* HashMap iteration order is arbitrary.  After the last iteration the
\* closure returns and the guard is dropped (main.rs:106-107).
SendOne(a, r) ==
    /\ ~NotBroadcasting(a)
    /\ r \in todo
    /\ IF ChanOpen(r)
         THEN /\ queue' = Enqueue({r}, cur[1])
              /\ todo' = todo \ {r}
              /\ cur' = IF todo = {r} THEN <<>> ELSE cur
              /\ guard' = IF todo = {r} THEN 0 ELSE guard
              /\ UNCHANGED <<pc, panicAt, rx, poisoned, delivered>>
         ELSE \* unbounded_send(..).unwrap() panics with the guard alive
              /\ Panic(a, "send")
              /\ queue' = DropOwnQueue(queue, a)
              /\ poisoned' = (poisoned \/ guard = a)
              /\ guard' = 0
              /\ cur' = <<>>
              /\ todo' = {}
    /\ UNCHANGED <<acceptor, nAccepts, nReads, gen, selectResult, peer_map>>

\* After a close frame the inbound stream ends: try_for_each returns Ok.
ReadEnd(a) ==
    /\ pc[a] = "closing"
    /\ NotBroadcasting(a)
    /\ pc' = [pc EXCEPT ![a] = "cleanup"]
    /\ selectResult' = [selectResult EXCEPT ![a] = "in_ok"]
    /\ UNCHANGED <<acceptor, nAccepts, nReads, gen, panicAt, peer_map,
                   poisoned, guard, cur, todo, rx, queue, delivered>>

\* A transport/protocol read error: try_for_each returns Err.
ReadErr(a) ==
    /\ pc[a] = "relaying"
    /\ NotBroadcasting(a)
    /\ pc' = [pc EXCEPT ![a] = "cleanup"]
    /\ selectResult' = [selectResult EXCEPT ![a] = "in_err"]
    /\ UNCHANGED <<acceptor, nAccepts, nReads, gen, panicAt, peer_map,
                   poisoned, guard, cur, todo, rx, queue, delivered>>

\* A forward that keeps writing after the select has completed.
WriteMsg_after_select(a) ==
    /\ pc[a] \in {"relaying", "cleanup"}
    /\ NotBroadcasting(a)
    /\ queue[a] # <<>>
    /\ delivered' = [delivered EXCEPT ![a] = Append(@, Head(queue[a]))]
    /\ queue' = [queue EXCEPT ![a] = Tail(@)]
    /\ UNCHANGED <<acceptor, nAccepts, nReads, gen, pc, panicAt,
                   selectResult, peer_map, poisoned, guard, cur, todo, rx>>

\* A forward that takes the newest queued message first.
WriteMsg_newest_first(a) ==
    /\ pc[a] = "relaying"
    /\ NotBroadcasting(a)
    /\ queue[a] # <<>>
    /\ delivered' = [delivered EXCEPT
                       ![a] = Append(@, queue[a][Len(queue[a])])]
    /\ queue' = [queue EXCEPT ![a] = SubSeq(@, 1, Len(@) - 1)]
    /\ UNCHANGED <<acceptor, nAccepts, nReads, gen, pc, panicAt,
                   selectResult, peer_map, poisoned, guard, cur, todo, rx>>

\* rx.map(Ok).forward(outgoing): one queued message written (main.rs:109)
WriteMsg(a) ==
    /\ pc[a] = "relaying"
    /\ NotBroadcasting(a)
    /\ queue[a] # <<>>
    /\ delivered' = [delivered EXCEPT ![a] = Append(@, Head(queue[a]))]
    /\ queue' = [queue EXCEPT ![a] = Tail(@)]
    /\ UNCHANGED <<acceptor, nAccepts, nReads, gen, pc, panicAt,
                   selectResult, peer_map, poisoned, guard, cur, todo, rx>>

\* The write of the next queued message fails: forward returns Err.
WriteErr(a) ==
    /\ pc[a] \in {"relaying", "closing"}
    /\ NotBroadcasting(a)
    /\ queue[a] # <<>>
    /\ queue' = [queue EXCEPT ![a] = Tail(@)]
    /\ pc' = [pc EXCEPT ![a] = "cleanup"]
    /\ selectResult' = [selectResult EXCEPT ![a] = "out_err"]
    /\ UNCHANGED <<acceptor, nAccepts, nReads, gen, panicAt, peer_map,
                   poisoned, guard, cur, todo, rx, delivered>>

\* A cleanup that forgets the entry and keeps the receiver alive.
Cleanup_keeps_entry(a) ==
    /\ pc[a] = "cleanup"
    /\ GuardFree
    /\ pc' = [pc EXCEPT ![a] = "done"]
    /\ UNCHANGED <<acceptor, nAccepts, nReads, gen, panicAt, selectResult,
                   peer_map, poisoned, guard, cur, todo, rx, queue,
                   delivered>>

\* peer_map.lock().unwrap().remove(&addr), then the function returns and
\* its locals (rx among them) are dropped (main.rs:114-116)
Cleanup(a) ==
    /\ pc[a] = "cleanup"
    /\ GuardFree
    /\ IF poisoned
         THEN /\ Panic(a, "remove")
              /\ UNCHANGED peer_map
         ELSE /\ peer_map' = MapRemove(peer_map, a)
              /\ pc' = [pc EXCEPT ![a] = "done"]
              /\ rx' = [rx EXCEPT ![a] = "dropped"]
              /\ delivered' = DropOwnSink(delivered, a)
              /\ UNCHANGED panicAt
    /\ queue' = DropOwnQueue(queue, a)
    /\ UNCHANGED <<acceptor, nAccepts, nReads, gen, selectResult,
                   poisoned, guard, cur, todo>>

Next ==
    \/ \E a \in Addrs : Accept(a)
    \/ AcceptFail
    \/ \E a \in Addrs : HandshakeFail(a)
    \/ \E a \in Addrs : Register(a)
    \/ \E a \in Addrs : \E m \in Messages : Recv(a, m)
    \/ \E a \in Addrs : \E r \in Addrs : SendOne(a, r)
    \/ \E a \in Addrs : ReadEnd(a)
    \/ \E a \in Addrs : ReadErr(a)
    \/ \E a \in Addrs : WriteMsg(a)
    \/ \E a \in Addrs : WriteErr(a)
    \/ \E a \in Addrs : Cleanup(a)

Spec == Init /\ [][Next]_vars

TypeOK ==
    /\ acceptor \in {"listening", "returned"}
    /\ nAccepts \in 0..MaxAccepts
    /\ nReads \in 0..MaxReads
    /\ pc \in [Addrs -> PcValues]
    /\ panicAt \in [Addrs -> PanicSites]
    /\ selectResult \in [Addrs -> SelectResults]
    /\ Registered \subseteq Addrs
    /\ poisoned \in BOOLEAN
    /\ guard \in 0..NumAddrs
    /\ cur \in {<<>>} \cup {<<m>> : m \in Messages}
    /\ todo \subseteq Addrs
    /\ rx \in [Addrs -> {"none", "open", "dropped"}]

\* ---- properties ----
Range(q) == {q[k] : k \in 1..Len(q)}

\* everything that has been put on the outbound path of a and is still
\* observable: queued for a, or already written to a's transport
Outbound(a) == Range(queue[a]) \cup Range(delivered[a])

\* the outbound path of a in order: written first, then still queued
Hist(a) == delivered[a] \o queue[a]

\* The handler of a has been inside the select (Relaying) and has ended.
EndedAfterRelaying(a) ==
    \/ pc[a] = "done"
    \/ pc[a] = "panicked" /\ panicAt[a] \in {"to_text", "lock", "send", "remove"}

\* Number of times the removal of main.rs:115 has run for the connection.
CleanupRuns(a) == IF pc[a] = "done" THEN 1 ELSE 0

\* The step in which the handler of a is through with the non-close inbound
\* message m: the read itself when nothing is left to send (or it panicked),
\* otherwise the last iteration of the send loop.
EndOfProcessing(a, m) ==
    /\ m.from = a
    /\ ~is_close(m)
    /\ cur' = <<>>
    /\ (cur = <<m>> \/ (cur = <<>> /\ Recv(a, m)))

\* No message of a is put on any queue in this step.
NoNewMessageFrom(a) ==
    \A j \in Addrs : \A x \in Range(queue'[j]) :
        x.from = a => x \in Range(queue[j])

\* C1: a non-close message read from peer i is never on peer i's own
\* outbound queue and never written to peer i's own transport.
C1_NoEcho ==
    \A a \in Addrs : \A m \in Outbound(a) : ~is_close(m) => m.from # a

\* C1 witness: a message of i has been relayed to another peer's transport
\* while i is still registered and relaying, and i itself received nothing.
C1_Witness ==
    \E i \in Addrs : \E j \in Addrs \ {i} :
        /\ pc[i] = "relaying" /\ i \in Registered
        /\ \E m \in Range(delivered[j]) : m.from = i /\ ~is_close(m)
        /\ Outbound(i) = {}

\* C2 (as claimed): a non-close message of i reaches every peer j # i that
\* is registered when the broadcast is performed.  A message reaches j's
\* transport only through j's queue, so when the handler of i is through
\* with the message, every registered j that is still relaying must have it
\* queued or written.
C2_BroadcastReachesEveryRegisteredPeer ==
    [][\A a \in Addrs : \A m \in Messages :
          EndOfProcessing(a, m) =>
             \A j \in Registered \ {a} :
                pc'[j] = "relaying" => m \in Range(queue'[j] \o delivered'[j])]_vars

\* C3 (as claimed): the registry holds an entry for exactly the connections
\* that have registered and whose handler has not ended.
C3_RegistryMatchesLiveConnections ==
    \A a \in Addrs :
        a \in Registered <=> pc[a] \in {"relaying", "closing", "cleanup"}

\* C4: a close-type message is never enqueued on any peer's outbound queue
\* nor written to any peer's transport.
C4_CloseNeverRelayed ==
    \A a \in Addrs : \A m \in Outbound(a) : ~is_close(m)

\* C4 witness: a close message has been read from i while another peer is
\* registered with an open queue.
C4_Witness ==
    \E i \in Addrs : \E j \in Addrs \ {i} :
        /\ pc[i] = "closing"
        /\ j \in Registered /\ pc[j] = "relaying" /\ ChanOpen(j)

\* C5 (as claimed): every inbound message that is not close-type, whatever
\* its type and payload, is relayed verbatim to each recipient, and
\* processing it does not end the sender's connection.
C5_EveryNonCloseMessageRelayed ==
    [][\A a \in Addrs : \A m \in Messages :
          EndOfProcessing(a, m) =>
             /\ pc'[a] = "relaying"
             /\ \A j \in Registered \ {a} :
                   pc'[j] = "relaying" =>
                      \E x \in Range(queue'[j] \o delivered'[j]) :
                         /\ x.seq = m.seq
                         /\ x.kind = m.kind
                         /\ x.payload = m.payload]_vars

\* C6 (as claimed): a failure in one handler never ends another handler and
\* never makes the registry unusable: the lock is never poisoned, and no
\* handler dies on the lock or on a send to another peer's channel.
C6_ErrorsContained ==
    /\ ~poisoned
    /\ \A j \in Addrs : panicAt[j] \in {"none", "handshake", "to_text"}

\* C7 (as claimed): the removal of the connection's own entry runs exactly
\* once for every connection that has left Relaying and ended.
C7_CleanupExactlyOnce ==
    \A a \in Addrs : EndedAfterRelaying(a) => CleanupRuns(a) = 1

\* C8 (as claimed): the accept loop is never ended by a failed accept.
C8_AcceptLoopNeverEnds == acceptor = "listening"

\* C9 (as claimed): a broadcast that meets a sender handle whose queue has
\* been torn down drops that delivery only: the broadcaster keeps relaying,
\* nothing fails, and the loop goes on with the remaining recipients.
C9_StaleDeliveryDropped ==
    [][\A a \in Addrs : \A r \in Addrs :
          (SendOne(a, r) /\ ~ChanOpen(r)) =>
             /\ pc'[a] = "relaying"
             /\ ~poisoned'
             /\ todo' = todo \ {r}]_vars

\* C10: a handshake failure leaves the registry, its lock and every other
\* connection as they were, and the failed connection is not registered by it.
C10_HandshakeFailureNoMutation ==
    [][\A a \in Addrs :
          (pc[a] = "handshake" /\ pc'[a] = "panicked"
             /\ panicAt'[a] = "handshake") =>
             /\ peer_map' = peer_map
             /\ poisoned' = poisoned
             /\ \A b \in Addrs \ {a} :
                   /\ pc'[b] = pc[b] /\ rx'[b] = rx[b]
                   /\ queue'[b] = queue[b] /\ delivered'[b] = delivered[b]]_vars

\* C10 witness: a handshake has failed while other peers are registered and
\* relaying.
C10_Witness ==
    \E a \in Addrs : \E b \in Addrs \ {a} :
        /\ pc[a] = "panicked" /\ panicAt[a] = "handshake"
        /\ a \notin Registered
        /\ b \in Registered /\ pc[b] = "relaying"

\* Messages of one sender appear on the outbound path of j in the order in
\* which that sender sent them.
PerSenderOrdered(j) ==
    \A k1 \in 1..Len(Hist(j)) : \A k2 \in 1..Len(Hist(j)) :
        (k1 < k2 /\ Hist(j)[k1].from = Hist(j)[k2].from) =>
            Hist(j)[k1].seq < Hist(j)[k2].seq

\* A peer whose outbound direction is not draining: still relaying, with a
\* backlog on its queue.
Stalled(k) == pc[k] = "relaying" /\ k \in Registered /\ queue[k] # <<>>

\* Position of message x on the outbound path of j (0: not there).
Pos(j, x) ==
    IF x \in Range(Hist(j))
      THEN CHOOSE k \in 1..Len(Hist(j)) : Hist(j)[k] = x
      ELSE 0

\* Any two receivers that both hold two messages hold them in the same order.
OrderConsistent ==
    \A j1 \in Addrs : \A j2 \in Addrs :
        \A x \in Range(Hist(j1)) \cap Range(Hist(j2)) :
            \A y \in Range(Hist(j1)) \cap Range(Hist(j2)) :
                (Pos(j1, x) < Pos(j1, y)) <=> (Pos(j2, x) < Pos(j2, y))

C12_StalledPeerDoesNotBlock ==
    [][\A a \in Addrs : \A m \in Messages : \A k \in Addrs :
          (EndOfProcessing(a, m) /\ Stalled(k)) =>
             /\ \A j \in Registered \ {a, k} :
                   pc'[j] = "relaying" =>
                      m \in Range(queue'[j] \o delivered'[j])
             /\ (k = a => pc'[k] = "relaying")]_vars

\* C13: the messages of one sender reach each receiver's transport in the
\* order of sending, and each write to a transport takes the oldest message
\* of the receiver's queue.
C13_PerSenderOrderAndFifo ==
    [][\A j \in Addrs :
          /\ PerSenderOrdered(j)'
          /\ Len(delivered'[j]) > Len(delivered[j]) =>
                /\ delivered'[j] = Append(delivered[j], Head(queue[j]))
                /\ queue'[j] = Tail(queue[j])]_vars

\* C13 witness: a receiver has been written two messages of one sender.
C13_Witness ==
    \E j \in Addrs :
        /\ Len(delivered[j]) >= 2
        /\ delivered[j][1].from = delivered[j][2].from
        /\ delivered[j][1] # delivered[j][2]

\* C14 (as claimed): when the handler of a disconnected peer i finishes, it
\* has removed exactly the entry of i and left every other peer's entry and
\* queue unchanged.
C14_DisconnectRemovesOwnEntry ==
    [][\A a \in Addrs :
          (pc[a] = "cleanup" /\ pc'[a] # "cleanup") =>
             /\ a \notin DOMAIN peer_map'
             /\ peer_map' = MapRemove(peer_map, a)
             /\ \A b \in Addrs \ {a} : queue'[b] = queue[b]]_vars

C17_NothingAfterRemoval ==
    [][\A a \in Addrs :
          pc[a] = "done" =>
             /\ a \notin Registered
             /\ queue'[a] = <<>>
             /\ delivered'[a] = <<>>]_vars

\* C17 witness: a remaining peer is broadcasting after peer a was removed.
C17_Witness ==
    \E a \in Addrs :
        /\ pc[a] = "done"
        /\ cur # <<>>
        /\ todo # {}

C20_RegistryHandlesLive ==
    \A r \in Registered : peer_map[r] = gen[r] /\ rx[r] = "open"
====
